---------------------------- MODULE Spec2Model ----------------------------
(***************************************************************************)
(* A model of the tools of mat3ra.made: the InterfaceDataHolder of         *)
(* tools/build/interface.py (termination groups, two-pass sort, greedy     *)
(* tolerance-based deduplication, retrieval), InterfaceSettings,           *)
(* create_defect, filter_by_label, merge_materials and SlabGenerator.      *)
(*                                                                         *)
(* Strains are integers counting units of 1e-10, so that the float         *)
(* comparison of numpy.allclose (|a - b| <= atol + rtol * |b|, atol =      *)
(* 1e-8, rtol = 1e-5) is computed exactly.                                 *)
(***************************************************************************)
EXTENDS Integers, Sequences, FiniteSets, TLC

VARIABLES
    terminations, data, call,            \* the InterfaceDataHolder and its last call
    zsl_parameters, interface_settings,  \* the ZSLParameters and InterfaceSettings objects
    defect_call,                         \* the last create_defect call
    material, modify_call,               \* the Material of filter_by_label and its last call
    merge_call,                          \* the last merge_materials call
    slab_generator, slab_call,           \* the SlabGenerator and its last call
    entries_passed                       \* what add_data_entries was called with so far

holderVars == <<terminations, data, call>>
settingsVars == <<zsl_parameters, interface_settings>>
defectVars == <<defect_call>>
modifyVars == <<material, modify_call>>
mergeVars == <<merge_call>>
slabVars == <<slab_generator, slab_call>>
recordVars == <<entries_passed>>
vars == <<holderVars, settingsVars, defectVars, modifyVars, mergeVars, slabVars, recordVars>>
\* what the calls of one part leave alone
notHolder == <<settingsVars, defectVars, modifyVars, mergeVars, slabVars, recordVars>>
notSettings == <<holderVars, defectVars, modifyVars, mergeVars, slabVars, recordVars>>
notDefect == <<holderVars, settingsVars, modifyVars, mergeVars, slabVars, recordVars>>
notModify == <<holderVars, settingsVars, defectVars, mergeVars, slabVars, recordVars>>
notMerge == <<holderVars, settingsVars, defectVars, modifyVars, slabVars, recordVars>>
notSlab == <<holderVars, settingsVars, defectVars, modifyVars, mergeVars, recordVars>>
notHolderNorRecord == <<settingsVars, defectVars, modifyVars, mergeVars, slabVars>>

-----------------------------------------------------------------------------
(* Bounds of the model.                                                    *)

\* the most candidates the holder stores over all groups before a call
MaxTotal == 3
\* the longest list of entries passed to one call
MaxEntries == 2
\* the most InterfaceSettings objects constructed
MaxSettings == 3
\* the most atoms of a material passed to filter_by_label
MaxAtoms == 3
\* the most atoms of a further material passed to merge_materials
MaxMergeAtoms == 2
\* the most slabs the generator returns
MaxSlabs == 3

-----------------------------------------------------------------------------
(* Generic helpers: Python list semantics.                                 *)

Abs(x) == IF x < 0 THEN -x ELSE x

Range(s) == {s[i] : i \in DOMAIN s}

\* all sequences over S of length at most n
SeqsUpTo(S, n) == UNION {[1..k -> S] : k \in 0..n}

\* the orderings of a finite set (list(set(...)) has an arbitrary order)
Orderings(S) ==
    {p \in [1..Cardinality(S) -> S] : \A i, j \in DOMAIN p : i # j => p[i] # p[j]}

\* list[i] of Python: positions -n..n-1 exist
PyIndexOk(s, i) == -Len(s) <= i /\ i < Len(s)
PyAt(s, i) == s[(IF i < 0 THEN i + Len(s) ELSE i) + 1]

\* list[start:stop] of Python, with its clamping of the two ends
PyClamp(n, i) == IF i < 0 THEN (IF i + n < 0 THEN 0 ELSE i + n)
                          ELSE (IF i > n THEN n ELSE i)
PySlice(s, start, stop) ==
    SubSeq(s, PyClamp(Len(s), start) + 1, PyClamp(Len(s), stop))

-----------------------------------------------------------------------------
(* Interface candidates: the fields of a pymatgen Interface the holder     *)
(* reads: interface_properties["termination"], num_sites and               *)
(* interface_properties[StrainModes.mean_abs_strain].                      *)

Terminations == {<<"C", "Si">>, <<"Ni", "Cu">>}
NumSites == {4, 8}
\* strains near 0.02, in units of 1e-10 (0.0199999, 0.02000005, 0.02000011):
\* neighbours lie within the comparison tolerance of each other, the first
\* and the last only when the last is the reference value
Strains == {199999000, 200000500, 200001100}

Interfaces == [termination : Terminations, num_sites : NumSites, strain : Strains]

\* numpy.allclose(a, b) with its default tolerances: atol = 1e-8 is 100
\* units, rtol = 1e-5 is one part in 100000 of |b|
AllCloseAtol == 100
AllCloseRtolInverse == 100000
AllClose(a, b) == Abs(a - b) <= AllCloseAtol + (Abs(b) \div AllCloseRtolInverse)

-----------------------------------------------------------------------------
(* InterfaceDataHolder.  A holder H is [terminations, data]: the list of   *)
(* terminations and the dict from termination to its list of interfaces.   *)

NoKey == <<"", "">>

\* the termination argument of a retrieval: an int or a termination pair
IndexArg(i) == [kind |-> "index", index |-> i, key |-> NoKey]
KeyArg(t) == [kind |-> "key", index |-> 0, key |-> t]

\* the results of a call that returns a list or raises
Ok(v) == [status |-> "ok", value |-> v]
Raise(e) == [status |-> e, value |-> << >>]

EmptyHolder == [terminations |-> << >>, data |-> [t \in {} |-> << >>]]

set_interfaces_for_termination(H, termination, interfaces) ==
    [H EXCEPT !.data = [t \in DOMAIN H.data \cup {termination} |->
                           IF t = termination THEN interfaces ELSE H.data[t]]]

\* add_termination without its membership test
add_termination_unconditional(H, termination) ==
    set_interfaces_for_termination(
        [H EXCEPT !.terminations = Append(H.terminations, termination)],
        termination, << >>)

add_termination(H, termination) ==
    IF termination \notin Range(H.terminations)
    THEN set_interfaces_for_termination(
             [H EXCEPT !.terminations = Append(H.terminations, termination)],
             termination, << >>)
    ELSE H

\* get_termination reading the position after the one asked for
get_termination_next_position(H, arg) ==
    IF arg.kind = "index"
    THEN IF PyIndexOk(H.terminations, arg.index + 1)
         THEN Ok(PyAt(H.terminations, arg.index + 1))
         ELSE Raise("IndexError")
    ELSE Ok(arg.key)

\* get_termination wrapping every int into the list instead of raising
get_termination_wrapping(H, arg) ==
    IF arg.kind = "index"
    THEN IF H.terminations # << >>
         THEN Ok(H.terminations[(arg.index % Len(H.terminations)) + 1])
         ELSE Raise("IndexError")
    ELSE Ok(arg.key)

\* self.terminations[termination] for an int, the argument itself otherwise
get_termination(H, arg) ==
    IF arg.kind = "index"
    THEN IF PyIndexOk(H.terminations, arg.index)
         THEN Ok(PyAt(H.terminations, arg.index))
         ELSE Raise("IndexError")
    ELSE Ok(arg.key)

get_interfaces_for_termination_or_its_index(H, arg) ==
    LET termination == get_termination(H, arg)
    IN  IF termination.status # "ok" THEN Raise(termination.status)
        ELSE IF termination.value \notin DOMAIN H.data THEN Raise("KeyError")
        ELSE Ok(H.data[termination.value])

\* the selection argument: None, an int, a slice or a list of ints
NoSelection == [kind |-> "none", index |-> 0, start |-> 0, stop |-> 0, indices |-> << >>]
IndexSelection(i) == [NoSelection EXCEPT !.kind = "index", !.index = i]
SliceSelection(a, b) == [NoSelection EXCEPT !.kind = "slice", !.start = a, !.stop = b]
ListSelection(l) == [NoSelection EXCEPT !.kind = "list", !.indices = l]

\* mat3ra.utils.array.filter_by_slice_or_index_or_indices
filter_by_slice_or_index_or_indices(array, sel) ==
    CASE sel.kind = "list" ->
            IF \A k \in DOMAIN sel.indices : PyIndexOk(array, sel.indices[k])
            THEN Ok([k \in DOMAIN sel.indices |-> PyAt(array, sel.indices[k])])
            ELSE Raise("IndexError")
      [] sel.kind = "slice" -> Ok(PySlice(array, sel.start, sel.stop))
      [] sel.kind = "index" ->
            IF PyIndexOk(array, sel.index) THEN Ok(<<PyAt(array, sel.index)>>)
            ELSE Raise("IndexError")
      [] OTHER -> Ok(array)

get_interfaces_for_termination(H, arg, sel) ==
    LET interfaces == get_interfaces_for_termination_or_its_index(H, arg)
    IN  IF interfaces.status # "ok" THEN interfaces
        ELSE filter_by_slice_or_index_or_indices(interfaces.value, sel)

add_interfaces_for_termination(H, termination, interfaces) ==
    LET H1 == add_termination(H, termination)
    IN  set_interfaces_for_termination(H1, termination,
            get_interfaces_for_termination(H1, KeyArg(termination), NoSelection).value
                \o interfaces)

\* the sort keys: np.mean(np.abs(strain)) and num_sites
StrainKey(x) == Abs(x.strain)
SizeKey(x) == x.num_sites
KeyOf(key, x) == IF key = "strain" THEN StrainKey(x) ELSE SizeKey(x)

\* sorted(s, key=...): stable, ascending; key names the key of an element
RECURSIVE InsertByKey(_, _, _)
InsertByKey(key, x, s) ==
    IF s = << >> THEN <<x>>
    ELSE IF KeyOf(key, x) < KeyOf(key, s[Len(s)])
         THEN Append(InsertByKey(key, x, SubSeq(s, 1, Len(s) - 1)), s[Len(s)])
         ELSE Append(s, x)

RECURSIVE StableSortBy(_, _)
StableSortBy(key, s) ==
    IF s = << >> THEN << >>
    ELSE InsertByKey(key, s[Len(s)], StableSortBy(key, SubSeq(s, 1, Len(s) - 1)))

get_interfaces_for_termination_sorted_by_strain(H, arg) ==
    LET r == get_interfaces_for_termination(H, arg, NoSelection)
    IN  IF r.status # "ok" THEN r ELSE Ok(StableSortBy("strain", r.value))

get_interfaces_for_termination_sorted_by_size(H, arg) ==
    LET r == get_interfaces_for_termination(H, arg, NoSelection)
    IN  IF r.status # "ok" THEN r ELSE Ok(StableSortBy("size", r.value))

get_interfaces_for_termination_sorted_by_strain_and_size(H, arg) ==
    LET r == get_interfaces_for_termination_sorted_by_strain(H, arg)
    IN  IF r.status # "ok" THEN r ELSE Ok(StableSortBy("size", r.value))

RECURSIVE SortFrom(_, _)
SortFrom(H, k) ==
    IF k > Len(H.terminations) THEN H
    ELSE SortFrom(
            set_interfaces_for_termination(H, H.terminations[k],
                get_interfaces_for_termination_sorted_by_strain_and_size(
                    H, KeyArg(H.terminations[k])).value),
            k + 1)

sort_interfaces_for_all_terminations_by_strain_and_size(H) == SortFrom(H, 1)

are_interfaces_duplicate(interface1, interface2) ==
    /\ interface1.num_sites = interface2.num_sites
    /\ AllClose(interface1.strain, interface2.strain)

\* the loop comparing each interface with every earlier one, kept or not
RECURSIVE FilterFrom_against_all_earlier(_, _, _)
FilterFrom_against_all_earlier(sorted_interfaces, filtered_interfaces, k) ==
    IF k > Len(sorted_interfaces) THEN filtered_interfaces
    ELSE FilterFrom_against_all_earlier(sorted_interfaces,
            IF \E u \in 1..(k - 1) :
                   are_interfaces_duplicate(sorted_interfaces[k], sorted_interfaces[u])
            THEN filtered_interfaces
            ELSE Append(filtered_interfaces, sorted_interfaces[k]),
            k + 1)

\* the loop of remove_duplicate_interfaces_for_termination over
\* sorted_interfaces[1:], from position k on
RECURSIVE FilterFrom(_, _, _)
FilterFrom(sorted_interfaces, filtered_interfaces, k) ==
    IF k > Len(sorted_interfaces) THEN filtered_interfaces
    ELSE FilterFrom(sorted_interfaces,
            IF \E u \in DOMAIN filtered_interfaces :
                   are_interfaces_duplicate(sorted_interfaces[k], filtered_interfaces[u])
            THEN filtered_interfaces
            ELSE Append(filtered_interfaces, sorted_interfaces[k]),
            k + 1)

remove_duplicate_interfaces_for_termination(H, termination) ==
    LET sorted_interfaces ==
            get_interfaces_for_termination_sorted_by_size(H, KeyArg(termination)).value
        filtered_interfaces ==
            IF sorted_interfaces # << >> THEN <<sorted_interfaces[1]>> ELSE << >>
    IN  set_interfaces_for_termination(H, termination,
            FilterFrom(sorted_interfaces, filtered_interfaces, 2))

RECURSIVE DedupeFrom(_, _)
DedupeFrom(H, k) ==
    IF k > Len(H.terminations) THEN H
    ELSE DedupeFrom(remove_duplicate_interfaces_for_termination(H, H.terminations[k]),
                    k + 1)

remove_duplicate_interfaces(H) == DedupeFrom(H, 1)

\* [entry for entry in entries if entry termination == termination]
RECURSIVE entries_for_termination(_, _)
entries_for_termination(entries, termination) ==
    IF entries = << >> THEN << >>
    ELSE (IF Head(entries).termination = termination THEN <<Head(entries)>> ELSE << >>)
             \o entries_for_termination(Tail(entries), termination)

\* the loop of add_data_entries over unique_terminations, from position k on
RECURSIVE AddGroupsFrom(_, _, _, _)
AddGroupsFrom(H, entries, unique_terminations, k) ==
    IF k > Len(unique_terminations) THEN H
    ELSE AddGroupsFrom(
            add_interfaces_for_termination(H, unique_terminations[k],
                entries_for_termination(entries, unique_terminations[k])),
            entries, unique_terminations, k + 1)

\* unique_terminations is list(set(all_terminations)) in the order the set
\* happened to give
add_data_entries(H, entries, unique_terminations, sort_interfaces_by_strain_and_size, remove_duplicates) ==
    LET H1 == AddGroupsFrom(H, entries, unique_terminations, 1)
        H2 == IF sort_interfaces_by_strain_and_size
              THEN sort_interfaces_for_all_terminations_by_strain_and_size(H1)
              ELSE H1
    IN  IF remove_duplicates THEN remove_duplicate_interfaces(H2) ELSE H2

all_terminations(entries) == {entries[i].termination : i \in DOMAIN entries}

-----------------------------------------------------------------------------
(* The holder as a state machine.  terminations and data are the fields of *)
(* the one InterfaceDataHolder; call records the last call made on it: the *)
(* method, its arguments, the group it found (before) and what it          *)
(* returned or raised.                                                     *)

Holder == [terminations |-> terminations, data |-> data]

NoCall ==
    [op |-> "none", arg |-> KeyArg(NoKey), sel |-> NoSelection,
     sort |-> FALSE, dedupe |-> FALSE, before |-> << >>, result |-> Ok(<< >>)]

Total(H) ==
    LET RECURSIVE Sum(_)
        Sum(k) == IF k = 0 THEN 0 ELSE Len(H.data[H.terminations[k]]) + Sum(k - 1)
    IN  Sum(Len(H.terminations))

\* the termination arguments tried: the ints around the positions of the
\* list, and every termination pair, held or not
IndexArgs == {IndexArg(i) : i \in -(Cardinality(Terminations) + 1)..Cardinality(Terminations)}
KeyArgs == {KeyArg(t) : t \in Terminations}
TerminationArgs == IndexArgs \cup KeyArgs

\* the selections tried: None, ints, slices, lists of ints
Selections ==
    {NoSelection, IndexSelection(0), IndexSelection(-1), IndexSelection(2),
     SliceSelection(0, 2), SliceSelection(1, 5), ListSelection(<<1, 0>>)}

\* InterfaceDataHolder(entries): add_data_entries(entries) on the empty holder
Construct(entries, unique_terminations) ==
    LET H == add_data_entries(EmptyHolder, entries, unique_terminations, TRUE, TRUE)
    IN  /\ terminations = H.terminations
        /\ data = H.data
        /\ call = [NoCall EXCEPT !.op = "__init__", !.sort = TRUE, !.dedupe = TRUE]

AddTermination(termination) ==
    /\ \E H \in {add_termination(Holder, termination)} :
           /\ terminations' = H.terminations
           /\ data' = H.data
           /\ call' = [NoCall EXCEPT !.op = "add_termination"]
    /\ UNCHANGED notHolder

AddInterfacesForTermination(termination, interfaces) ==
    /\ Total(Holder) + Len(interfaces) <= MaxTotal
    /\ \E H \in {add_interfaces_for_termination(Holder, termination, interfaces)} :
           /\ terminations' = H.terminations
           /\ data' = H.data
           /\ call' = [NoCall EXCEPT !.op = "add_interfaces_for_termination"]
    /\ UNCHANGED notHolder

AddDataEntries(entries, unique_terminations, sort_interfaces_by_strain_and_size, remove_duplicates) ==
    /\ Total(Holder) + Len(entries) <= MaxTotal
    /\ \E H \in {add_data_entries(Holder, entries, unique_terminations,
                                 sort_interfaces_by_strain_and_size, remove_duplicates)} :
           /\ terminations' = H.terminations
           /\ data' = H.data
           /\ call' = [NoCall EXCEPT !.op = "add_data_entries",
                                     !.sort = sort_interfaces_by_strain_and_size,
                                     !.dedupe = remove_duplicates]
    /\ UNCHANGED notHolder

\* remove_duplicate_interfaces_for_termination called on its own
RemoveDuplicateInterfacesForTermination(termination) ==
    /\ termination \in DOMAIN data
    /\ \E H \in {remove_duplicate_interfaces_for_termination(Holder, termination)} :
           /\ terminations' = H.terminations
           /\ data' = H.data
           /\ call' = [NoCall EXCEPT !.op = "remove_duplicate_interfaces_for_termination",
                                     !.arg = KeyArg(termination),
                                     !.before = data[termination]]
    /\ UNCHANGED notHolder

GetInterfacesForTermination(arg, sel) ==
    /\ call' = [NoCall EXCEPT !.op = "get_interfaces_for_termination",
                              !.arg = arg, !.sel = sel,
                              !.result = get_interfaces_for_termination(Holder, arg, sel)]
    /\ UNCHANGED <<terminations, data>>
    /\ UNCHANGED notHolder

GetInterfacesForTerminationSortedByStrainAndSize(arg) ==
    /\ call' = [NoCall EXCEPT
                  !.op = "get_interfaces_for_termination_sorted_by_strain_and_size",
                  !.arg = arg,
                  !.result = get_interfaces_for_termination_sorted_by_strain_and_size(
                                 Holder, arg)]
    /\ UNCHANGED <<terminations, data>>
    /\ UNCHANGED notHolder

\* the entries passed with one call, with an order of their terminations
EntryLists == SeqsUpTo(Interfaces, MaxEntries)
EntryCalls ==
    UNION {{<<entries, u>> : u \in Orderings(all_terminations(entries))} :
             entries \in EntryLists}
EntryListsOf == [t \in Terminations |->
                  SeqsUpTo({x \in Interfaces : x.termination = t}, MaxEntries)]

\* the same over interfaces of one strain, for the retrieval calls, which
\* read no strain
RetrievalInterfaces == {x \in Interfaces : x.strain = 199999000}
RetrievalEntryCalls == {c \in EntryCalls : Range(c[1]) \subseteq RetrievalInterfaces}
RetrievalEntryListsOf == [t \in Terminations |->
                           {l \in EntryListsOf[t] : Range(l) \subseteq RetrievalInterfaces}]

\* the same over interfaces of one termination, for the duplicate removal,
\* which works on one termination's group and reads no other
DuplicateInterfaces == {x \in Interfaces : x.termination = <<"C", "Si">>}
DuplicateEntryCalls == {c \in EntryCalls : Range(c[1]) \subseteq DuplicateInterfaces}
DuplicateEntryListsOf == [t \in Terminations |->
                           {l \in EntryListsOf[t] : Range(l) \subseteq DuplicateInterfaces}]

\* the same over interfaces of one size and two strains within tolerance of
\* each other, for the calls that list terminations, which read a strain and
\* a size only to sort and to remove duplicates
TerminationInterfaces ==
    {x \in Interfaces : x.num_sites = 4 /\ x.strain \in {199999000, 200000500}}
TerminationEntryCalls == {c \in EntryCalls : Range(c[1]) \subseteq TerminationInterfaces}
TerminationEntryListsOf == [t \in Terminations |->
                             {l \in EntryListsOf[t] : Range(l) \subseteq TerminationInterfaces}]

\* the record of the add_data_entries calls made so far: the entries passed
\* in all of them, whether each call left both flags at their default True
\* and nothing else added interfaces, and the entries of the last call
NoRecord == [entries |-> {}, default |-> TRUE, last |-> << >>]
RecordIdle == entries_passed = NoRecord

\* InterfaceDataHolder(entries), recorded
RecordedConstruct(entries, unique_terminations) ==
    /\ Construct(entries, unique_terminations)
    /\ entries_passed = [entries |-> Range(entries), default |-> TRUE, last |-> entries]

\* add_data_entries, recorded
RecordedAddDataEntries(entries, unique_terminations, sort_interfaces_by_strain_and_size, remove_duplicates) ==
    /\ Total(Holder) + Len(entries) <= MaxTotal
    /\ \E H \in {add_data_entries(Holder, entries, unique_terminations,
                                 sort_interfaces_by_strain_and_size, remove_duplicates)} :
           /\ terminations' = H.terminations
           /\ data' = H.data
           /\ call' = [NoCall EXCEPT !.op = "add_data_entries",
                                     !.sort = sort_interfaces_by_strain_and_size,
                                     !.dedupe = remove_duplicates]
    /\ entries_passed' =
           [entries |-> entries_passed.entries \cup Range(entries),
            default |-> /\ entries_passed.default
                        /\ sort_interfaces_by_strain_and_size
                        /\ remove_duplicates,
            last |-> entries]
    /\ UNCHANGED notHolderNorRecord

\* the interfaces of the recorded calls: three strains of one termination
\* and one size, the middle one within tolerance of both others and these
\* two not within tolerance of each other, and one interface of the other
\* termination
RecordStrains == {199999000, 200000500, 200002000}
RecordInterfaces ==
    {[termination |-> <<"C", "Si">>, num_sites |-> 4, strain |-> e] : e \in RecordStrains}
        \cup {[termination |-> <<"Ni", "Cu">>, num_sites |-> 4, strain |-> 199999000]}
RecordEntryCalls ==
    UNION {{<<entries, u>> : u \in Orderings(all_terminations(entries))} :
             entries \in SeqsUpTo(RecordInterfaces, MaxEntries)}

-----------------------------------------------------------------------------
(* InterfaceSettings.  zsl_parameters is the heap of ZSLParameters         *)
(* objects, each known by its position and holding its max_area; object 1  *)
(* is the one the default argument ZSLParameters=ZSLParameters() made when *)
(* the def statement ran.  interface_settings lists the InterfaceSettings  *)
(* objects in construction order: max_area, the ZSLParameters object held, *)
(* whether every argument was defaulted, and the ZSLParameters.max_area    *)
(* read through the object right after its construction.                   *)

DEFAULT_MAX_AREA == 400
MaxAreas == {DEFAULT_MAX_AREA, 50, 100}

DefaultZSLParameters == 1

\* the ZSLParameters argument: left to its default, or a new
\* ZSLParameters(max_area=v) of the caller
ZSLArguments == {[given |-> FALSE, max_area |-> DEFAULT_MAX_AREA]}
                    \cup {[given |-> TRUE, max_area |-> v] : v \in MaxAreas}

\* the heap after the caller evaluated the argument, and the object passed
ZSLArgumentHeap(heap, zsl) ==
    IF zsl.given THEN Append(heap, zsl.max_area) ELSE heap
ZSLArgumentObject(heap, zsl) ==
    IF zsl.given THEN Len(heap) + 1 ELSE DefaultZSLParameters

\* InterfaceSettings.__init__: the heap it leaves
InterfaceSettings_init_heap(heap, max_area, zsl) ==
    LET heap1 == ZSLArgumentHeap(heap, zsl)
        ZSLParameters == ZSLArgumentObject(heap, zsl)
    IN  IF max_area # DEFAULT_MAX_AREA
        THEN [heap1 EXCEPT ![ZSLParameters] = max_area]
        ELSE heap1

\* InterfaceSettings.__init__: the object it makes
InterfaceSettings_init(heap, max_area, max_area_given, zsl) ==
    [max_area |-> max_area,
     ZSLParameters |-> ZSLArgumentObject(heap, zsl),
     all_default |-> ~max_area_given /\ ~zsl.given,
     zsl_max_area_at_init |->
         InterfaceSettings_init_heap(heap, max_area, zsl)[ZSLArgumentObject(heap, zsl)]]

SettingsIdle ==
    /\ zsl_parameters = <<DEFAULT_MAX_AREA>>
    /\ interface_settings = << >>

NewInterfaceSettings(max_area, max_area_given, zsl) ==
    /\ Len(interface_settings) < MaxSettings
    /\ interface_settings' = Append(interface_settings,
           InterfaceSettings_init(zsl_parameters, max_area, max_area_given, zsl))
    /\ zsl_parameters' = InterfaceSettings_init_heap(zsl_parameters, max_area, zsl)
    /\ UNCHANGED notSettings

-----------------------------------------------------------------------------
(* create_defect.                                                          *)

PointDefectTypeEnum == {"vacancy", "substitution", "interstitial"}
\* what configuration.defect_type may hold: a member of the enum or not
DefectTypes == PointDefectTypeEnum \cup {"unknown"}
Crystals == {"Si", "Ge", "Ni", "Cu"}
ChemicalElements == {"C", "N", "O"}
BuilderParameters == {"None", "center_defect", "keep_cell"}

PointDefectConfigurations ==
    [crystal : Crystals, defect_type : DefectTypes, chemical_element : ChemicalElements]

DEFECT_BUILDER_FACTORY(builder_parameters) ==
    [t \in PointDefectTypeEnum |-> [builder |-> t, parameters |-> builder_parameters]]

\* bool(builder): the builders define no __bool__ and no __len__
BuilderIsTruthy(builder) == TRUE

\* builder.get_material(configuration): the material a builder makes
get_material(builder, configuration) ==
    [built_by |-> builder, configuration |-> configuration]

NoMaterial == [built_by |-> [builder |-> "none", parameters |-> "None"],
               configuration |-> [crystal |-> "none", defect_type |-> "unknown",
                                  chemical_element |-> "none"]]
\* the input material configuration.crystal, returned as it is
UnmodifiedCrystal(configuration) ==
    [NoMaterial EXCEPT !.configuration.crystal = configuration.crystal]

create_defect(configuration, builder_parameters) ==
    IF configuration.defect_type \notin DOMAIN DEFECT_BUILDER_FACTORY(builder_parameters)
    THEN [status |-> "KeyError", value |-> NoMaterial]
    ELSE LET builder ==
                 DEFECT_BUILDER_FACTORY(builder_parameters)[configuration.defect_type]
         IN  IF BuilderIsTruthy(builder)
             THEN [status |-> "ok", value |-> get_material(builder, configuration)]
             ELSE [status |-> "ok", value |-> UnmodifiedCrystal(configuration)]

NoDefectCall == [op |-> "none", configuration |-> NoMaterial.configuration,
                 builder_parameters |-> "None",
                 result |-> [status |-> "ok", value |-> NoMaterial]]

DefectIdle == defect_call = NoDefectCall

CreateDefect(configuration, builder_parameters) ==
    /\ defect_call' = [op |-> "create_defect", configuration |-> configuration,
                       builder_parameters |-> builder_parameters,
                       result |-> create_defect(configuration, builder_parameters)]
    /\ UNCHANGED notDefect

-----------------------------------------------------------------------------
(* filter_by_label.  A basis holds three lists of {"id", "value"} entries: *)
(* elements, coordinates and labels.                                       *)

ElementValues == {"Si", "Cu"}
LabelValues == {1, 2}

\* the basis of a material of n atoms with ids 0..n-1: atom i has the
\* element e[i], the coordinate i - 1 and the label l[i]
BasisOf(e, l) ==
    [elements |-> [i \in DOMAIN e |-> [id |-> i - 1, value |-> e[i]]],
     coordinates |-> [i \in DOMAIN e |-> [id |-> i - 1, value |-> i - 1]],
     labels |-> [i \in DOMAIN l |-> [id |-> i - 1, value |-> l[i]]]]

LabelledMaterials ==
    UNION {{BasisOf(e, l) : e \in [1..n -> ElementValues], l \in [1..n -> LabelValues]} :
             n \in 0..MaxAtoms}

\* [x for idx, x in enumerate(array) if idx in indices], indices 0-based
RECURSIVE KeepIndices(_, _)
KeepIndices(array, indices) ==
    IF array = << >> THEN << >>
    ELSE KeepIndices(SubSeq(array, 1, Len(array) - 1), indices)
             \o (IF (Len(array) - 1) \in indices THEN <<array[Len(array)]>> ELSE << >>)

filter_by_label(basis, label) ==
    LET labels == basis.labels
        indices == {idx \in 0..(Len(labels) - 1) : labels[idx + 1].value = label}
    IN  [basis EXCEPT !.coordinates = KeepIndices(basis.coordinates, indices),
                      !.elements = KeepIndices(basis.elements, indices)]

EmptyBasis == [elements |-> << >>, coordinates |-> << >>, labels |-> << >>]
NoModifyCall == [op |-> "none", label |-> 0, before |-> EmptyBasis]

ModifyIdle == material = EmptyBasis /\ modify_call = NoModifyCall

FilterByLabel(label) ==
    /\ material' = filter_by_label(material, label)
    /\ modify_call' = [op |-> "filter_by_label", label |-> label, before |-> material]
    /\ UNCHANGED notModify

-----------------------------------------------------------------------------
(* merge_materials, and the fixtures of its test.                          *)

\* the bases of the test: section holds the atoms 0 and 3 of cubic Ni with
\* atom 0 turned into Ge, cavity the atoms 1 and 2 and an added atom 3 of S
\* at the place of section's atom 3 (coordinates in tenths)
section ==
    [elements |-> <<[id |-> 0, value |-> "Ge"], [id |-> 3, value |-> "Ni"]>>,
     coordinates |-> <<[id |-> 0, value |-> <<0, 0, 0>>], [id |-> 3, value |-> <<5, 5, 0>>]>>,
     labels |-> << >>]
cavity ==
    [elements |-> <<[id |-> 1, value |-> "Ni"], [id |-> 2, value |-> "Ni"],
                    [id |-> 3, value |-> "S"]>>,
     coordinates |-> <<[id |-> 1, value |-> <<0, 5, 5>>], [id |-> 2, value |-> <<5, 0, 5>>],
                       [id |-> 3, value |-> <<5, 5, 0>>]>>,
     labels |-> << >>]
\* the basis the test would expect if the first material won the collision
expected_merged_material_basis_first_wins ==
    [elements |-> <<[id |-> 0, value |-> "Ge"], [id |-> 3, value |-> "Ni"],
                    [id |-> 1, value |-> "Ni"], [id |-> 2, value |-> "Ni"]>>,
     coordinates |-> <<[id |-> 0, value |-> <<0, 0, 0>>], [id |-> 3, value |-> <<5, 5, 0>>],
                       [id |-> 1, value |-> <<0, 5, 5>>], [id |-> 2, value |-> <<5, 0, 5>>]>>,
     labels |-> << >>]

expected_merged_material_basis ==
    [elements |-> <<[id |-> 0, value |-> "Ge"], [id |-> 3, value |-> "S"],
                    [id |-> 1, value |-> "Ni"], [id |-> 2, value |-> "Ni"]>>,
     coordinates |-> <<[id |-> 0, value |-> <<0, 0, 0>>], [id |-> 3, value |-> <<5, 5, 0>>],
                       [id |-> 1, value |-> <<0, 5, 5>>], [id |-> 2, value |-> <<5, 0, 5>>]>>,
     labels |-> << >>]
expected_merged_material_reverse_basis ==
    [elements |-> <<[id |-> 1, value |-> "Ni"], [id |-> 2, value |-> "Ni"],
                    [id |-> 3, value |-> "Ni"], [id |-> 0, value |-> "Ge"]>>,
     coordinates |-> <<[id |-> 1, value |-> <<0, 5, 5>>], [id |-> 2, value |-> <<5, 0, 5>>],
                       [id |-> 3, value |-> <<5, 5, 0>>], [id |-> 0, value |-> <<0, 0, 0>>]>>,
     labels |-> << >>]

\* further inputs: bases of up to MaxMergeAtoms atoms with distinct ids
MergeIds == {0, 1, 3}
\* an atom is Ni at one place or S at another, so that the element and the
\* coordinate of a merged atom each tell the material it came from
MergeAtoms ==
    {[id |-> i, element |-> "Ni", coordinate |-> <<0, 5, 5>>] : i \in MergeIds}
        \cup {[id |-> i, element |-> "S", coordinate |-> <<5, 5, 0>>] : i \in MergeIds}
BasisOfAtoms(atoms) ==
    [elements |-> [i \in DOMAIN atoms |-> [id |-> atoms[i].id, value |-> atoms[i].element]],
     coordinates |-> [i \in DOMAIN atoms |->
                         [id |-> atoms[i].id, value |-> atoms[i].coordinate]],
     labels |-> << >>]
MergeMaterials ==
    {section, cavity} \cup
    {BasisOfAtoms(atoms) :
        atoms \in {a \in SeqsUpTo(MergeAtoms, MaxMergeAtoms) :
                      a # << >> /\ \A i, j \in DOMAIN a : i # j => a[i].id # a[j].id}}

\* the entries of an id in a list of {"id", "value"} entries
PositionsOfId(array, id) == {i \in DOMAIN array : array[i].id = id}

\* one entry put into a list: where the id is present already its value is
\* replaced in place, else the entry is appended
PutEntry(array, entry) ==
    IF PositionsOfId(array, entry.id) # {}
    THEN [i \in DOMAIN array |-> IF array[i].id = entry.id THEN entry ELSE array[i]]
    ELSE Append(array, entry)

RECURSIVE PutEntries(_, _)
PutEntries(array, entries) ==
    IF entries = << >> THEN array
    ELSE PutEntries(PutEntry(array, Head(entries)), Tail(entries))

merge_two_bases(basis1, basis2) ==
    [elements |-> PutEntries(basis1.elements, basis2.elements),
     coordinates |-> PutEntries(basis1.coordinates, basis2.coordinates),
     labels |-> basis1.labels \o basis2.labels]

RECURSIVE merge_materials(_)
merge_materials(materials) ==
    IF Len(materials) = 1 THEN materials[1]
    ELSE merge_two_bases(merge_materials(SubSeq(materials, 1, Len(materials) - 1)),
                         materials[Len(materials)])

NoMergeCall == [op |-> "none", materials |-> << >>, result |-> EmptyBasis]

MergeIdle == merge_call = NoMergeCall

\* the call of merge_materials on the list of materials at hand
MergeMaterialsCall ==
    /\ merge_call.op = "pending"
    /\ merge_call' = [merge_call EXCEPT !.op = "merge_materials",
                                        !.result = merge_materials(merge_call.materials)]
    /\ UNCHANGED notMerge

-----------------------------------------------------------------------------
(* SlabGenerator.  A slab structure of the pymatgen generator is known by  *)
(* the label label_termination gives it and by its number of sites.        *)

SlabTerminations == {"Si_P6/mmm_1", "Si_R-3m_2", "O_Pm-3m_1"}
SlabSites == {2, 4}
SlabStructures == [termination : SlabTerminations, num_sites : SlabSites]
SupercellMatrices == {<<<<1, 0>>, <<0, 1>>>>, <<<<2, 0>>, <<0, 2>>>>}

label_termination(slab) == slab.termination

\* bool(slab): a pymatgen structure is falsy when it has no sites
SlabIsTruthy(slab) == slab.num_sites # 0

\* create_supercell(Material(from_pymatgen(slab_structure)), xy_supercell_matrix)
create_supercell_of_slab(slab_structure, xy_supercell_matrix) ==
    [is_none |-> FALSE, structure |-> slab_structure,
     xy_supercell_matrix |-> xy_supercell_matrix]

None == [is_none |-> TRUE, structure |-> [termination |-> "", num_sites |-> 0],
         xy_supercell_matrix |-> << >>]

\* set(label_termination(slab) for slab in self._slab_structures if slab)
termination_set(slab_structures) ==
    {label_termination(slab_structures[i]) :
        i \in {k \in DOMAIN slab_structures : SlabIsTruthy(slab_structures[k])}}

\* get_terminations: list(set(...)), the set as a list in one of its orders
get_terminations(slab_structures) == Orderings(termination_set(slab_structures))

RECURSIVE slabs_of(_, _)
slabs_of(slab_structures, xy_supercell_matrix) ==
    IF slab_structures = << >> THEN << >>
    ELSE (IF SlabIsTruthy(Head(slab_structures))
          THEN <<create_supercell_of_slab(Head(slab_structures), xy_supercell_matrix)>>
          ELSE << >>) \o slabs_of(Tail(slab_structures), xy_supercell_matrix)

\* SlabGenerator.__init__, generated being what generator.get_slabs() gave
\* and terminations what self.get_terminations() gave
SlabGenerator_init(generated, xy_supercell_matrix, terminations_got) ==
    [xy_supercell_matrix |-> xy_supercell_matrix,
     slab_structures |-> generated,
     slabs |-> slabs_of(generated, xy_supercell_matrix),
     terminations |-> terminations_got]

\* get_slab_with_termination returning the last match
get_slab_with_termination_last(G, termination) ==
    LET matches == {k \in DOMAIN G.slab_structures :
                       label_termination(G.slab_structures[k]) = termination}
    IN  IF matches = {} THEN None
        ELSE create_supercell_of_slab(
                 G.slab_structures[CHOOSE k \in matches : \A j \in matches : j <= k],
                 G.xy_supercell_matrix)

\* the loop of get_slab_with_termination, from position k on
RECURSIVE FirstSlabFrom(_, _, _)
FirstSlabFrom(G, termination, k) ==
    IF k > Len(G.slab_structures) THEN None
    ELSE IF label_termination(G.slab_structures[k]) = termination
         THEN create_supercell_of_slab(G.slab_structures[k], G.xy_supercell_matrix)
         ELSE FirstSlabFrom(G, termination, k + 1)

get_slab_with_termination(G, termination) == FirstSlabFrom(G, termination, 1)

NoSlabGenerator == SlabGenerator_init(<< >>, << >>, << >>)
NoSlabCall == [op |-> "none", termination |-> "", result |-> None,
               terminations |-> << >>]

SlabIdle == slab_generator = NoSlabGenerator /\ slab_call = NoSlabCall

GetSlabWithTermination(termination) ==
    /\ slab_call' = [NoSlabCall EXCEPT
                       !.op = "get_slab_with_termination", !.termination = termination,
                       !.result = get_slab_with_termination(slab_generator, termination)]
    /\ UNCHANGED slab_generator
    /\ UNCHANGED notSlab

GetTerminations(terminations_got) ==
    /\ terminations_got \in get_terminations(slab_generator.slab_structures)
    /\ slab_call' = [NoSlabCall EXCEPT !.op = "get_terminations",
                                       !.terminations = terminations_got]
    /\ UNCHANGED slab_generator
    /\ UNCHANGED notSlab

-----------------------------------------------------------------------------
(* The specifications.  Each takes one part of the program through its   *)
(* calls and leaves the other parts idle.                                  *)

HolderIdle ==
    /\ terminations = << >>
    /\ data = EmptyHolder.data
    /\ call = NoCall

\* Spec: the holder under construction and its mutating calls, over every
\* interface of Interfaces.
Init ==
    /\ \E c \in EntryCalls : Construct(c[1], c[2])
    /\ SettingsIdle /\ DefectIdle /\ ModifyIdle /\ MergeIdle /\ SlabIdle /\ RecordIdle

Next ==
    \/ \E termination \in Terminations : AddTermination(termination)
    \/ \E termination \in Terminations :
         \E interfaces \in EntryListsOf[termination] :
           AddInterfacesForTermination(termination, interfaces)
    \/ \E c \in EntryCalls :
         \E sort_flag, dedupe_flag \in BOOLEAN :
           AddDataEntries(c[1], c[2], sort_flag, dedupe_flag)
    \/ \E termination \in Terminations :
         RemoveDuplicateInterfacesForTermination(termination)
    \/ \E arg \in KeyArgs :
         GetInterfacesForTerminationSortedByStrainAndSize(arg)

Spec == Init /\ [][Next]_vars

\* SpecRetrieval: the holder under construction, its adding calls and its
\* retrieval calls with every termination argument and selection.
InitRetrieval ==
    /\ \E c \in RetrievalEntryCalls : Construct(c[1], c[2])
    /\ SettingsIdle /\ DefectIdle /\ ModifyIdle /\ MergeIdle /\ SlabIdle /\ RecordIdle

NextRetrieval ==
    \/ \E termination \in Terminations : AddTermination(termination)
    \/ \E termination \in Terminations :
         \E interfaces \in RetrievalEntryListsOf[termination] :
           AddInterfacesForTermination(termination, interfaces)
    \/ \E c \in RetrievalEntryCalls :
         \E sort_flag, dedupe_flag \in BOOLEAN :
           AddDataEntries(c[1], c[2], sort_flag, dedupe_flag)
    \/ \E arg \in TerminationArgs : \E sel \in Selections :
         GetInterfacesForTermination(arg, sel)

SpecRetrieval == InitRetrieval /\ [][NextRetrieval]_vars

\* SpecDuplicates: the holder under construction, groups grown by
\* add_interfaces_for_termination, which neither sorts nor removes, and
\* remove_duplicate_interfaces_for_termination called on a group, empty or not.
InitDuplicates ==
    /\ \E c \in DuplicateEntryCalls : Construct(c[1], c[2])
    /\ SettingsIdle /\ DefectIdle /\ ModifyIdle /\ MergeIdle /\ SlabIdle /\ RecordIdle

NextDuplicates ==
    \/ \E termination \in Terminations : AddTermination(termination)
    \/ \E termination \in Terminations :
         \E interfaces \in DuplicateEntryListsOf[termination] :
           AddInterfacesForTermination(termination, interfaces)
    \/ \E termination \in Terminations :
         RemoveDuplicateInterfacesForTermination(termination)

SpecDuplicates == InitDuplicates /\ [][NextDuplicates]_vars

\* SpecTerminations: the holder under construction, its three adding calls
\* with every flag, and remove_duplicate_interfaces_for_termination, over the
\* interfaces of both terminations, of one size and of two strains.
InitTerminations ==
    /\ \E c \in TerminationEntryCalls : Construct(c[1], c[2])
    /\ SettingsIdle /\ DefectIdle /\ ModifyIdle /\ MergeIdle /\ SlabIdle /\ RecordIdle

NextTerminations ==
    \/ \E termination \in Terminations : AddTermination(termination)
    \/ \E termination \in Terminations :
         \E interfaces \in TerminationEntryListsOf[termination] :
           AddInterfacesForTermination(termination, interfaces)
    \/ \E c \in TerminationEntryCalls :
         \E sort_flag, dedupe_flag \in BOOLEAN :
           AddDataEntries(c[1], c[2], sort_flag, dedupe_flag)
    \/ \E termination \in Terminations :
         RemoveDuplicateInterfacesForTermination(termination)

SpecTerminations == InitTerminations /\ [][NextTerminations]_vars

\* SpecEntries: the holder under construction and add_data_entries called
\* again and again with every pair of flags, each call recorded.
InitEntries ==
    /\ \E c \in RecordEntryCalls : RecordedConstruct(c[1], c[2])
    /\ SettingsIdle /\ DefectIdle /\ ModifyIdle /\ MergeIdle /\ SlabIdle

NextEntries ==
    \E c \in RecordEntryCalls :
      \E sort_flag, dedupe_flag \in BOOLEAN :
        RecordedAddDataEntries(c[1], c[2], sort_flag, dedupe_flag)

SpecEntries == InitEntries /\ [][NextEntries]_vars

\* SpecSettings: InterfaceSettings objects constructed one after another.
InitSettings ==
    /\ SettingsIdle
    /\ HolderIdle /\ DefectIdle /\ ModifyIdle /\ MergeIdle /\ SlabIdle /\ RecordIdle

NextSettings ==
    \/ \E zsl \in ZSLArguments : NewInterfaceSettings(DEFAULT_MAX_AREA, FALSE, zsl)
    \/ \E max_area \in MaxAreas : \E zsl \in ZSLArguments :
         NewInterfaceSettings(max_area, TRUE, zsl)

SpecSettings == InitSettings /\ [][NextSettings]_vars

\* SpecDefect: create_defect called with every configuration.
InitDefect ==
    /\ DefectIdle
    /\ HolderIdle /\ SettingsIdle /\ ModifyIdle /\ MergeIdle /\ SlabIdle /\ RecordIdle

NextDefect ==
    \E configuration \in PointDefectConfigurations :
      \E builder_parameters \in BuilderParameters :
        CreateDefect(configuration, builder_parameters)

SpecDefect == InitDefect /\ [][NextDefect]_vars

\* SpecModify: filter_by_label called again and again on one material.
InitModify ==
    /\ material \in LabelledMaterials
    /\ modify_call = NoModifyCall
    /\ HolderIdle /\ SettingsIdle /\ DefectIdle /\ MergeIdle /\ SlabIdle /\ RecordIdle

NextModify == \E label \in LabelValues : FilterByLabel(label)

SpecModify == InitModify /\ [][NextModify]_vars

\* SpecMerge: merge_materials called on a pair of materials, every pair tried.
InitMerge ==
    /\ \E A, B \in MergeMaterials :
         merge_call = [NoMergeCall EXCEPT !.op = "pending", !.materials = <<A, B>>]
    /\ HolderIdle /\ SettingsIdle /\ DefectIdle /\ ModifyIdle /\ SlabIdle /\ RecordIdle

NextMerge == MergeMaterialsCall

SpecMerge == InitMerge /\ [][NextMerge]_vars

\* SpecSlab: a SlabGenerator constructed over what the pymatgen generator
\* returned (slabs with sites), and its two queries.
InitSlab ==
    /\ \E generated \in SeqsUpTo({s \in SlabStructures : SlabIsTruthy(s)}, MaxSlabs) :
         \E xy_supercell_matrix \in SupercellMatrices :
           \E terminations_got \in get_terminations(generated) :
             slab_generator =
                 SlabGenerator_init(generated, xy_supercell_matrix, terminations_got)
    /\ slab_call = NoSlabCall
    /\ HolderIdle /\ SettingsIdle /\ DefectIdle /\ ModifyIdle /\ MergeIdle /\ RecordIdle

NextSlab ==
    \/ \E termination \in SlabTerminations : GetSlabWithTermination(termination)
    \/ \E terminations_got \in SeqsUpTo(SlabTerminations, Cardinality(SlabTerminations)) :
         GetTerminations(terminations_got)

SpecSlab == InitSlab /\ [][NextSlab]_vars

-----------------------------------------------------------------------------
(* The claims.                                                             *)

\* the sub-list of s at the positions K, in order
RECURSIVE SubListAt(_, _)
SubListAt(s, K) ==
    IF s = << >> THEN << >>
    ELSE SubListAt(SubSeq(s, 1, Len(s) - 1), K)
             \o (IF Len(s) \in K THEN <<s[Len(s)]>> ELSE << >>)

\* equal num_sites and strains within tolerance, in either order
NearDuplicate(x, y) == are_interfaces_duplicate(x, y) \/ are_interfaces_duplicate(y, x)

AfterDefaultAdd == call.op \in {"__init__", "add_data_entries"} /\ call.sort /\ call.dedupe
AfterDedupingAdd == call.op \in {"__init__", "add_data_entries"} /\ call.dedupe

\* C1: after construction and after an add_data_entries call with
\* remove_duplicates=True, no group holds two retained candidates that are
\* near-duplicates of each other, the pair taken in either order.
C1_NoRetainedNearDuplicates ==
    AfterDedupingAdd =>
        \A t \in DOMAIN data : \A i, j \in DOMAIN data[t] :
            i # j => ~NearDuplicate(data[t][i], data[t][j])

\* strain is the primary key and num_sites the secondary key
SortedByStrainThenSize(l) ==
    \A i, j \in DOMAIN l :
        i < j => \/ StrainKey(l[i]) < StrainKey(l[j])
                 \/ StrainKey(l[i]) = StrainKey(l[j]) /\ l[i].num_sites <= l[j].num_sites

\* C2: the list stored for every group after add_data_entries with default
\* flags, and the list get_interfaces_for_termination_sorted_by_strain_and_size
\* returns, is non-decreasing in strain, equal strains in non-decreasing
\* num_sites order.
C2_SortedByStrainThenSize ==
    /\ AfterDefaultAdd => \A t \in DOMAIN data : SortedByStrainThenSize(data[t])
    /\ (call.op = "get_interfaces_for_termination_sorted_by_strain_and_size"
            /\ call.result.status = "ok") => SortedByStrainThenSize(call.result.value)

AfterRemoveDuplicates == call.op = "remove_duplicate_interfaces_for_termination"

\* the group the last remove_duplicate_interfaces_for_termination call found,
\* in its stable size-ascending order, and the group it left
SizeOrdered == StableSortBy("size", call.before)
Retained == data[call.arg.key]

\* C3 as stated: of any two candidates of equal num_sites whose strains are
\* within tolerance, the later one in the size order is removed, and the
\* earlier one is retained unless it is itself the later one of such a pair;
\* so the first candidate of a non-empty group is retained.
C3_OnlyFirstOfNearDuplicatesRetained ==
    AfterRemoveDuplicates =>
        \E K \in SUBSET DOMAIN SizeOrdered :
            /\ Retained = SubListAt(SizeOrdered, K)
            /\ \A j \in DOMAIN SizeOrdered :
                   j \in K <=> ~\E i \in 1..(j - 1) :
                                   are_interfaces_duplicate(SizeOrdered[j], SizeOrdered[i])

\* C3 as amended: a candidate is retained exactly when it is, by
\* are_interfaces_duplicate(candidate, kept), a duplicate of no candidate
\* retained before it in the size order; so the first candidate is retained
\* and a non-empty group stays non-empty.
C3_GreedyAgainstRetained ==
    AfterRemoveDuplicates =>
        /\ \E K \in SUBSET DOMAIN SizeOrdered :
              /\ Retained = SubListAt(SizeOrdered, K)
              /\ \A k \in DOMAIN SizeOrdered :
                     k \in K <=> ~\E u \in K : u < k /\ are_interfaces_duplicate(
                                                           SizeOrdered[k], SizeOrdered[u])
        /\ call.before # << >> => (Retained # << >> /\ Retained[1] = SizeOrdered[1])

\* a group of three in which the middle one is removed as a duplicate of the
\* first and the last, a duplicate of the middle one only, is retained
C3_Witness ==
    /\ AfterRemoveDuplicates
    /\ Len(SizeOrdered) = 3 /\ Len(Retained) = 2
    /\ are_interfaces_duplicate(SizeOrdered[2], SizeOrdered[1])
    /\ are_interfaces_duplicate(SizeOrdered[3], SizeOrdered[2])
    /\ Retained = <<SizeOrdered[1], SizeOrdered[3]>>

AfterGet == call.op = "get_interfaces_for_termination"

\* C4: retrieval by a position i in 0..len(terminations)-1 returns what
\* retrieval by the key terminations[i] returns (the same candidates in the
\* same order, or the same error of the selection), for every selection.
C4_IndexRetrievalEqualsKeyRetrieval ==
    (AfterGet /\ call.arg.kind = "index"
        /\ call.arg.index \in 0..(Len(terminations) - 1))
    => call.result = get_interfaces_for_termination(
                         Holder, KeyArg(terminations[call.arg.index + 1]), call.sel)

\* the second termination's group of two, retrieved by its position in
\* reversed order
C4_Witness ==
    /\ AfterGet /\ call.arg = IndexArg(1) /\ call.sel = ListSelection(<<1, 0>>)
    /\ Len(terminations) = 2
    /\ call.result.status = "ok" /\ Len(call.result.value) = 2
    /\ call.result.value[1] # call.result.value[2]
    /\ data[terminations[1]] # data[terminations[2]]

\* the termination argument names no held termination, as C5 reads it: an
\* int outside 0..len(terminations)-1, or a pair that is no key of data
NotHeld_C5(arg) ==
    \/ arg.kind = "index" /\ arg.index \notin 0..(Len(terminations) - 1)
    \/ arg.kind = "key" /\ arg.key \notin DOMAIN data

\* C5 as stated: retrieval with an int outside 0..len(terminations)-1 or
\* with a pair that is not held raises a lookup error.
C5_OutsidePositionsRaises ==
    (AfterGet /\ NotHeld_C5(call.arg)) => call.result.status \in {"IndexError", "KeyError"}

\* C5 as amended: retrieval with an int outside
\* -len(terminations)..len(terminations)-1 raises IndexError and retrieval
\* with a pair that is not held raises KeyError, returning no list, and the
\* call leaves terminations and data unchanged.
C5_OutOfRangeRaises ==
    [][call'.op = "get_interfaces_for_termination"
        => /\ (call'.arg.kind = "index"
                 /\ call'.arg.index \notin (-Len(terminations))..(Len(terminations) - 1))
              => call'.result = Raise("IndexError")
           /\ (call'.arg.kind = "key" /\ call'.arg.key \notin DOMAIN data)
              => call'.result = Raise("KeyError")
           /\ terminations' = terminations /\ data' = data]_vars

\* an int one past the two positions raised IndexError
C5_Witness ==
    /\ AfterGet /\ call.arg = IndexArg(2) /\ Len(terminations) = 2
    /\ call.result = Raise("IndexError")
    /\ data[terminations[2]] # << >>

AfterCreateDefect == defect_call.op = "create_defect"

\* C6: create_defect returns builder.get_material(configuration) of the
\* builder of configuration.defect_type, and the unmodified
\* configuration.crystal when the defect type has no builder.
C6_UnknownTypeReturnsCrystal ==
    AfterCreateDefect =>
        LET configuration == defect_call.configuration
            builders == DEFECT_BUILDER_FACTORY(defect_call.builder_parameters)
        IN  IF configuration.defect_type \in PointDefectTypeEnum
            THEN defect_call.result =
                     [status |-> "ok",
                      value |-> get_material(builders[configuration.defect_type],
                                             configuration)]
            ELSE defect_call.result =
                     [status |-> "ok", value |-> UnmodifiedCrystal(configuration)]

\* C7: an InterfaceSettings built with all-default arguments reads
\* ZSLParameters.max_area = DEFAULT_MAX_AREA, and the ZSLParameters.max_area
\* read through a settings object is what it was right after the object's
\* construction, whatever was constructed since.
C7_NoSharedZSLParameters ==
    \A k \in DOMAIN interface_settings :
        LET settings == interface_settings[k]
        IN  /\ settings.all_default => settings.zsl_max_area_at_init = DEFAULT_MAX_AREA
            /\ zsl_parameters[settings.ZSLParameters] = settings.zsl_max_area_at_init

AfterMerge == merge_call.op = "merge_materials"

IdsOf(array) == {array[i].id : i \in DOMAIN array}
ValueOfId(array, id) == array[CHOOSE i \in PositionsOfId(array, id) : TRUE].value

\* every id of A or B has exactly one element and one coordinate entry in
\* the merged basis, and nothing else is in it
OneEntryPerAtom(A, B, merged) ==
    /\ IdsOf(merged.elements) = IdsOf(A.elements) \cup IdsOf(B.elements)
    /\ IdsOf(merged.coordinates) = IdsOf(A.coordinates) \cup IdsOf(B.coordinates)
    /\ \A id \in IdsOf(merged.elements) : Cardinality(PositionsOfId(merged.elements, id)) = 1
    /\ \A id \in IdsOf(merged.coordinates) :
           Cardinality(PositionsOfId(merged.coordinates, id)) = 1

\* the merged entries of every id are those of `winner` where both
\* materials hold the id, and those of the one material that holds it
EntriesTakenFrom(winner, other, merged) ==
    /\ \A id \in IdsOf(winner.elements) :
           /\ ValueOfId(merged.elements, id) = ValueOfId(winner.elements, id)
           /\ ValueOfId(merged.coordinates, id) = ValueOfId(winner.coordinates, id)
    /\ \A id \in IdsOf(other.elements) \ IdsOf(winner.elements) :
           /\ ValueOfId(merged.elements, id) = ValueOfId(other.elements, id)
           /\ ValueOfId(merged.coordinates, id) = ValueOfId(other.coordinates, id)

AfterFilter == modify_call.op = "filter_by_label"

\* the three lists are parallel: entry i of each describes the same atom
Parallel(basis) ==
    /\ Len(basis.elements) = Len(basis.labels)
    /\ Len(basis.coordinates) = Len(basis.labels)
    /\ \A i \in DOMAIN basis.labels :
           /\ basis.elements[i].id = basis.labels[i].id
           /\ basis.coordinates[i].id = basis.labels[i].id

\* C9: filter_by_label leaves exactly the atoms whose label value is label,
\* in their order, the three lists still parallel; filtering by the same
\* label again changes nothing.
C9_FilterKeepsLabelledAtomsParallel ==
    (AfterFilter /\ Parallel(modify_call.before)) =>
        LET before == modify_call.before
            kept == {i \in DOMAIN before.labels : before.labels[i].value = modify_call.label}
        IN  /\ material.elements = SubListAt(before.elements, kept)
            /\ material.coordinates = SubListAt(before.coordinates, kept)
            /\ material.labels = SubListAt(before.labels, kept)
            /\ Parallel(material)
            /\ filter_by_label(material, modify_call.label) = material

AfterGetSlab == slab_call.op = "get_slab_with_termination"

\* C10: terminations holds each label of a generated slab exactly once;
\* get_slab_with_termination(t) returns the Material of the first generated
\* slab labelled t for t in terminations, and None for any other label.
C10_SlabsDeduplicatedByTermination ==
    LET G == slab_generator
        labels == {label_termination(G.slab_structures[k]) : k \in DOMAIN G.slab_structures}
    IN  /\ Range(G.terminations) = labels
        /\ \A i, j \in DOMAIN G.terminations :
               i # j => G.terminations[i] # G.terminations[j]
        /\ AfterGetSlab =>
              IF slab_call.termination \in Range(G.terminations)
              THEN \E k \in DOMAIN G.slab_structures :
                      /\ label_termination(G.slab_structures[k]) = slab_call.termination
                      /\ \A j \in 1..(k - 1) :
                             label_termination(G.slab_structures[j]) # slab_call.termination
                      /\ slab_call.result = create_supercell_of_slab(
                                                G.slab_structures[k], G.xy_supercell_matrix)
              ELSE slab_call.result = None

\* two different slabs of one label were generated after a slab of another
\* label, and the first of the two was returned
C10_Witness ==
    /\ AfterGetSlab
    /\ Len(slab_generator.slab_structures) = 3
    /\ label_termination(slab_generator.slab_structures[1]) # slab_call.termination
    /\ label_termination(slab_generator.slab_structures[2]) = slab_call.termination
    /\ label_termination(slab_generator.slab_structures[3]) = slab_call.termination
    /\ slab_generator.slab_structures[2] # slab_generator.slab_structures[3]
    /\ slab_call.result.structure = slab_generator.slab_structures[2]

\* C11: the termination list only grows at its end: every step keeps the
\* list it found as a prefix of the list it leaves (so a listed termination
\* keeps its position and none is removed), and in every state no termination
\* is listed twice and the listed terminations are exactly the keys of data.
C11_TerminationsAppendOnly ==
    /\ [](/\ \A i, j \in DOMAIN terminations :
                 terminations[i] = terminations[j] => i = j
          /\ Range(terminations) = DOMAIN data)
    /\ [][/\ Len(terminations') >= Len(terminations)
          /\ SubSeq(terminations', 1, Len(terminations)) = terminations]_vars

\* two terminations listed, the second one added with its interfaces after
\* the first, and its group just shrunk by the removal of duplicates
C11_Witness ==
    /\ AfterRemoveDuplicates
    /\ terminations = << <<"Ni", "Cu">>, <<"C", "Si">> >>
    /\ call.arg.key = terminations[2]
    /\ Len(Retained) < Len(call.before)

\* the group of a termination, empty when the termination is not listed
GroupOf(d, t) == IF t \in DOMAIN d THEN d[t] ELSE << >>

\* C12: after add_data_entries calls with default flags only, every stored
\* candidate was passed in a call and is stored under its own termination,
\* and every candidate passed is retained in its termination's group or is a
\* near-duplicate of a candidate retained there; and a call with both flags
\* disabled leaves each group as it was, followed by the call's entries of
\* that termination in input order.
C12_RepresentativeSetKeepsEveryCandidate ==
    /\ [](entries_passed.default =>
            /\ \A t \in DOMAIN data : \A i \in DOMAIN data[t] :
                   /\ data[t][i] \in entries_passed.entries
                   /\ data[t][i].termination = t
            /\ \A x \in entries_passed.entries :
                   \/ x \in Range(GroupOf(data, x.termination))
                   \/ \E y \in Range(GroupOf(data, x.termination)) : NearDuplicate(x, y))
    /\ [][(call'.op = "add_data_entries" /\ ~call'.sort /\ ~call'.dedupe) =>
             \A t \in DOMAIN data' :
                 data'[t] = GroupOf(data, t)
                              \o entries_for_termination(entries_passed'.last, t)]_vars

=============================================================================
